---- MODULE Spec2Model ----
(***************************************************************************)
(* The portfolio screen of app/(tabs)/index.tsx: HomeScreen renders four   *)
(* display sections inside a ScrollView and owns a ref to that ScrollView; *)
(* the hero's Pressable forwards its press to handleViewWork, which calls  *)
(* scrollTo on the ref when the ref is attached.                           *)
(*                                                                         *)
(* The rendered output is kept as a tree of records: a View is a record    *)
(* with a style name and its children, a Text a record with a style name   *)
(* and its text.                                                           *)
(***************************************************************************)
EXTENDS Integers, Sequences, FiniteSets, TLC

VARIABLES
    mounted,        \* HomeScreen is mounted
    scrollViewRef,  \* scrollViewRef.current: Null or the ScrollView instance
    projects,       \* the projects array built by the latest render
    tree,           \* the rendered output: <<>> or <<root element>>
    pressed,        \* the Pressable's pressed state
    touch,          \* the gesture on the Pressable: "none", "down", "released"
    scrollCalls,    \* the scrollTo invocations the ScrollView received, in order
    callbackCalls,  \* invocations of the callback given to HeroSection
    presses,        \* onPress events the Pressable delivered
    renders,        \* renders of HomeScreen
    errors          \* exceptions thrown by a handler

vars == <<mounted, scrollViewRef, projects, tree, pressed, touch, scrollCalls,
          callbackCalls, presses, renders, errors>>

\* Bounds of the model.
MaxPresses == 3
MaxRenders == 3
MaxLen == 2

Null == "null"
ScrollViewInstance == "ScrollView"

----------------------------------------------------------------------------
\* Elements

Text(style, text) == [type |-> "Text", style |-> style, text |-> text]

\* styles.ctaButton.backgroundColor and styles.ctaButtonPressed.backgroundColor
ctaButton == "#E0E7FF"
ctaButtonPressed == "#C7D2FE"

\* Mutant: the pressed colour is shown while the button is not pressed.
CtaStyle_Inverted(isPressed) ==
    [name |-> "ctaButton",
     backgroundColor |-> IF isPressed THEN ctaButton ELSE ctaButtonPressed]

\* style={({ pressed }) => [styles.ctaButton, pressed && styles.ctaButtonPressed]}:
\* the later entry of a style array overrides the earlier one.
CtaStyle(isPressed) ==
    [name |-> "ctaButton",
     backgroundColor |-> IF isPressed THEN ctaButtonPressed ELSE ctaButton]

\* Mutant: the Pressable is given no onPress.
HeroSection_Unwired(onViewWorkPress, isPressed) ==
    [component |-> "HeroSection",
     style |-> "hero",
     children |-> << Text("name", "Smriti Ray"),
                     Text("role", "Aspiring Data Analyst"),
                     Text("tagline", "Turning data into clear, actionable insights.") >>,
     cta |-> [type |-> "Pressable",
              style |-> CtaStyle(isPressed),
              onPress |-> Null,
              children |-> << Text("ctaText", "View My Work") >>]]

HeroSection(onViewWorkPress, isPressed) ==
    [component |-> "HeroSection",
     style |-> "hero",
     children |-> << Text("name", "Smriti Ray"),
                     Text("role", "Aspiring Data Analyst"),
                     Text("tagline", "Turning data into clear, actionable insights.") >>,
     cta |-> [type |-> "Pressable",
              style |-> CtaStyle(isPressed),
              onPress |-> onViewWorkPress,
              children |-> << Text("ctaText", "View My Work") >>]]

\* (the em dash of the text is written -- here)
AboutSection ==
    [component |-> "AboutSection",
     style |-> "section",
     children |-> << Text("sectionTitle", "About Me"),
                     Text("text", "I'm learning to be a data analyst by working through real problems. I find it exciting when data reveals something useful or interesting--and I focus on making sure my analysis is clear and honest rather than just impressive-looking. I'm still growing, but I'm committed to doing thoughtful work.") >>]

\* Mutant: the description and the tech are passed to each other's Text.
ProjectCard_Swapped(title, description, tech) ==
    [component |-> "ProjectCard",
     style |-> "projectCard",
     children |-> << Text("projectTitle", title),
                     Text("projectDescription", tech),
                     Text("projectTech", description) >>]

ProjectCard(title, description, tech) ==
    [component |-> "ProjectCard",
     style |-> "projectCard",
     children |-> << Text("projectTitle", title),
                     Text("projectDescription", description),
                     Text("projectTech", tech) >>]

\* Mutant: the cards are rendered in reverse order.
ProjectsSection_Reversed(projectList) ==
    [component |-> "ProjectsSection",
     style |-> "section",
     children |-> << Text("sectionTitle", "Projects"),
                     Text("text", "This portfolio shows projects I've completed through coursework and personal practice. I work with Excel, SQL, and Python to clean data and find insights. Each project taught me something new about how to approach a problem thoughtfully.") >>,
     cards |-> [i \in 1..Len(projectList) |->
                   [key |-> projectList[Len(projectList) + 1 - i].id,
                    element |-> ProjectCard(projectList[Len(projectList) + 1 - i].title,
                                            projectList[Len(projectList) + 1 - i].description,
                                            projectList[Len(projectList) + 1 - i].tech)]]]

\* Mutant: the section's title shows how many renders went before.
ProjectsSection_Counting(projectList) ==
    [component |-> "ProjectsSection",
     style |-> "section",
     children |-> << Text("sectionTitle", IF renders = 0 THEN "Projects" ELSE "Projects (again)"),
                     Text("text", "This portfolio shows projects I've completed through coursework and personal practice. I work with Excel, SQL, and Python to clean data and find insights. Each project taught me something new about how to approach a problem thoughtfully.") >>,
     cards |-> [i \in 1..Len(projectList) |->
                   [key |-> projectList[i].id,
                    element |-> ProjectCard(projectList[i].title,
                                            projectList[i].description,
                                            projectList[i].tech)]]]

\* Mutant: only the first project of the list is rendered.
ProjectsSection_Truncated(projectList) ==
    [component |-> "ProjectsSection",
     style |-> "section",
     children |-> << Text("sectionTitle", "Projects"),
                     Text("text", "This portfolio shows projects I've completed through coursework and personal practice. I work with Excel, SQL, and Python to clean data and find insights. Each project taught me something new about how to approach a problem thoughtfully.") >>,
     cards |-> [i \in 1..(IF Len(projectList) > 1 THEN 1 ELSE Len(projectList)) |->
                   [key |-> projectList[i].id,
                    element |-> ProjectCard(projectList[i].title,
                                            projectList[i].description,
                                            projectList[i].tech)]]]

\* projects.map((project) => <ProjectCard key={project.id} ... />)
ProjectsSection(projectList) ==
    [component |-> "ProjectsSection",
     style |-> "section",
     children |-> << Text("sectionTitle", "Projects"),
                     Text("text", "This portfolio shows projects I've completed through coursework and personal practice. I work with Excel, SQL, and Python to clean data and find insights. Each project taught me something new about how to approach a problem thoughtfully.") >>,
     cards |-> [i \in 1..Len(projectList) |->
                   [key |-> projectList[i].id,
                    element |-> ProjectCard(projectList[i].title,
                                            projectList[i].description,
                                            projectList[i].tech)]]]

ContactSection ==
    [component |-> "ContactSection",
     style |-> "section",
     children |-> << Text("sectionTitle", "Get in Touch"),
                     Text("text", "Email: smritiray2.sr@gmail.com"),
                     Text("text", "GitHub: github.com/smritiray2-sr") >>]

\* Mutant: the third record repeats the second's id.
HomeScreenProjects_DuplicateId ==
    << [id |-> 1,
        title |-> "Sales Performance Analysis",
        description |-> "Analyzed quarterly sales data to identify trends and top-performing regions. Cleaned and visualized data to support business decisions.",
        tech |-> "Excel, SQL, Tableau"],
       [id |-> 2,
        title |-> "Customer Segmentation Study",
        description |-> "Used Python to segment customers based on purchase behavior and demographics. Created visualizations to guide marketing strategy.",
        tech |-> "Python, Pandas, Matplotlib"],
       [id |-> 2,
        title |-> "Inventory Data Cleanup Project",
        description |-> "Identified and fixed data quality issues in a product inventory dataset. Documented processes for ongoing data maintenance.",
        tech |-> "Excel, Python, SQL"] >>

\* const projects: ProjectData[] = [...]
HomeScreenProjects ==
    << [id |-> 1,
        title |-> "Sales Performance Analysis",
        description |-> "Analyzed quarterly sales data to identify trends and top-performing regions. Cleaned and visualized data to support business decisions.",
        tech |-> "Excel, SQL, Tableau"],
       [id |-> 2,
        title |-> "Customer Segmentation Study",
        description |-> "Used Python to segment customers based on purchase behavior and demographics. Created visualizations to guide marketing strategy.",
        tech |-> "Python, Pandas, Matplotlib"],
       [id |-> 3,
        title |-> "Inventory Data Cleanup Project",
        description |-> "Identified and fixed data quality issues in a product inventory dataset. Documented processes for ongoing data maintenance.",
        tech |-> "Excel, Python, SQL"] >>

\* Mutant: the Projects section is placed before the About section.
HomeScreen_Reordered(projectList, isPressed) ==
    [type |-> "ScrollView",
     style |-> "container",
     contentContainerStyle |-> "content",
     children |-> << HeroSection("handleViewWork", isPressed),
                     ProjectsSection(projectList),
                     AboutSection,
                     ContactSection >>]

\* The element HomeScreen returns; the Pressable keeps its pressed state
\* across renders of its parents.
HomeScreen(projectList, isPressed) ==
    [type |-> "ScrollView",
     style |-> "container",
     contentContainerStyle |-> "content",
     children |-> << HeroSection("handleViewWork", isPressed),
                     AboutSection,
                     ProjectsSection(projectList),
                     ContactSection >>]

----------------------------------------------------------------------------
\* The screen

Init ==
    /\ mounted = FALSE
    /\ scrollViewRef = Null
    /\ projects = << >>
    /\ tree = << >>
    /\ pressed = FALSE
    /\ touch = "none"
    /\ scrollCalls = << >>
    /\ callbackCalls = 0
    /\ presses = 0
    /\ renders = 0
    /\ errors = 0

\* First render and commit. useRef(null) starts the ref at null; the commit
\* sets it to the ScrollView's instance when the host provides one (a test
\* renderer without node mocks provides none).
Mount(hostNode) ==
    /\ ~mounted
    /\ renders < MaxRenders
    /\ mounted' = TRUE
    /\ renders' = renders + 1
    /\ projects' = HomeScreenProjects
    /\ tree' = << HomeScreen(projects', FALSE) >>
    /\ scrollViewRef' = IF hostNode THEN ScrollViewInstance ELSE Null
    /\ pressed' = FALSE
    /\ touch' = "none"
    /\ UNCHANGED <<scrollCalls, callbackCalls, presses, errors>>

\* A render of HomeScreen caused by its parent: the array and the handler
\* are built again, the ref object and the Pressable's state are kept.
ReRender ==
    /\ mounted
    /\ renders < MaxRenders
    /\ renders' = renders + 1
    /\ projects' = HomeScreenProjects
    /\ tree' = << HomeScreen(projects', pressed) >>
    /\ UNCHANGED <<mounted, scrollViewRef, pressed, touch, scrollCalls,
                   callbackCalls, presses, errors>>

Unmount ==
    /\ mounted
    /\ mounted' = FALSE
    /\ scrollViewRef' = Null
    /\ projects' = << >>
    /\ tree' = << >>
    /\ pressed' = FALSE
    /\ touch' = "none"
    /\ UNCHANGED <<scrollCalls, callbackCalls, presses, renders, errors>>

\* Mutant: the scroll is not animated.
handleViewWork_NotAnimated ==
    /\ callbackCalls' = callbackCalls + 1
    /\ IF scrollViewRef # Null
          THEN scrollCalls' = Append(scrollCalls, [y |-> 450, animated |-> FALSE])
          ELSE scrollCalls' = scrollCalls
    /\ UNCHANGED <<errors, projects, scrollViewRef>>

\* Mutant: scrollViewRef.current.scrollTo(...), which throws on a null ref.
handleViewWork_NoGuard ==
    /\ callbackCalls' = callbackCalls + 1
    /\ IF scrollViewRef # Null
          THEN scrollCalls' = Append(scrollCalls, [y |-> 450, animated |-> TRUE])
               /\ errors' = errors
          ELSE scrollCalls' = scrollCalls /\ errors' = errors + 1
    /\ UNCHANGED <<projects, scrollViewRef>>

\* Mutant: the handler also removes the first project of the array.
handleViewWork_Mutating ==
    /\ callbackCalls' = callbackCalls + 1
    /\ IF scrollViewRef # Null
          THEN scrollCalls' = Append(scrollCalls, [y |-> 450, animated |-> TRUE])
          ELSE scrollCalls' = scrollCalls
    /\ projects' = Tail(projects)
    /\ UNCHANGED <<errors, scrollViewRef>>

\* scrollViewRef.current?.scrollTo({ y: 450, animated: true })
handleViewWork ==
    /\ callbackCalls' = callbackCalls + 1
    /\ IF scrollViewRef # Null
          THEN scrollCalls' = Append(scrollCalls, [y |-> 450, animated |-> TRUE])
          ELSE scrollCalls' = scrollCalls
    /\ UNCHANGED <<errors, projects, scrollViewRef>>

\* The Pressable evaluates its style function again with its new state.
Restyle(t, isPressed) ==
    << [t[1] EXCEPT !.children[1].cta.style = CtaStyle(isPressed)] >>

PressIn ==
    /\ mounted
    /\ touch = "none"
    /\ touch' = "down"
    /\ pressed' = TRUE
    /\ tree' = Restyle(tree, TRUE)
    /\ UNCHANGED <<mounted, scrollViewRef, projects, scrollCalls, callbackCalls,
                   presses, renders, errors>>

\* The touch is released inside the Pressable: onPress is delivered to the
\* handler the hero was given.
Press ==
    /\ mounted
    /\ touch = "down"
    /\ presses < MaxPresses
    /\ touch' = "released"
    /\ presses' = presses + 1
    /\ IF tree[1].children[1].cta.onPress = "handleViewWork"
          THEN handleViewWork
          ELSE UNCHANGED <<callbackCalls, scrollCalls, errors, projects, scrollViewRef>>
    /\ UNCHANGED <<mounted, tree, pressed, renders>>

\* The press ends (after a release, or cancelled without one).
PressOut ==
    /\ mounted
    /\ touch \in {"down", "released"}
    /\ touch' = "none"
    /\ pressed' = FALSE
    /\ tree' = Restyle(tree, FALSE)
    /\ UNCHANGED <<mounted, scrollViewRef, projects, scrollCalls, callbackCalls,
                   presses, renders, errors>>

Next ==
    \/ \E hostNode \in BOOLEAN : Mount(hostNode)
    \/ ReRender
    \/ Unmount
    \/ PressIn
    \/ Press
    \/ PressOut

Spec == Init /\ [][Next]_vars

----------------------------------------------------------------------------
\* ProjectsSection rendered alone, with any list of project records as props

Ids == {1, 2, 3}
Titles == {"Title A", "Title B"}
Descriptions == {"Description A", "Description B"}
Techs == {"Tech A", "Tech B"}

\* The records the lists are drawn from: every id with every title and two
\* description/tech pairs, so that two records can differ in every field.
ProjectData ==
    { r \in [id : Ids, title : Titles, description : Descriptions, tech : Techs] :
        (r.description = "Description A") <=> (r.tech = "Tech A") }

ProjectLists == UNION { [1..n -> ProjectData] : n \in 0..MaxLen }

RenderProjectsSection(projectList) ==
    /\ projects' = projectList
    /\ tree' = << ProjectsSection(projectList) >>
    /\ UNCHANGED <<mounted, scrollViewRef, pressed, touch, scrollCalls,
                   callbackCalls, presses, renders, errors>>

NextCards == \E projectList \in ProjectLists : RenderProjectsSection(projectList)

SpecCards == Init /\ [][NextCards]_vars

----------------------------------------------------------------------------
\* Properties

\* What the rendered screen shows.
Sections == tree[1].children
Cards == tree[1].children[3].cards
CardText(card, style) ==
    { card.element.children[k].text :
        k \in { j \in 1..Len(card.element.children) : card.element.children[j].style = style } }

\* C1: with the ref attached, every press of the call-to-action makes exactly
\* one scrollTo invocation, with y = 450 and animated = true; every
\* invocation ever made has these arguments, and no invocation is made by a
\* step that is not a press.
C1_PressScrollsOnce ==
    /\ [](\A i \in 1..Len(scrollCalls) : scrollCalls[i] = [y |-> 450, animated |-> TRUE])
    /\ [](Len(scrollCalls) <= presses)
    /\ [][ /\ (presses' = presses + 1 /\ scrollViewRef # Null)
                => scrollCalls' = Append(scrollCalls, [y |-> 450, animated |-> TRUE])
           /\ (presses' = presses) => scrollCalls' = scrollCalls ]_vars

C1_Witness ==
    /\ mounted
    /\ scrollViewRef # Null
    /\ presses = 2
    /\ scrollCalls = << [y |-> 450, animated |-> TRUE], [y |-> 450, animated |-> TRUE] >>

\* C2: with the ref null, a press of the call-to-action makes no scrollTo
\* invocation, raises no error and leaves the project list and the rendered
\* output as they were.
C2_NullRefPressIsNoOp ==
    [][ (presses' = presses + 1 /\ scrollViewRef = Null)
            => /\ scrollCalls' = scrollCalls
               /\ errors' = errors
               /\ projects' = projects
               /\ tree' = tree
               /\ scrollViewRef' = Null ]_vars

C2_Witness ==
    /\ mounted
    /\ scrollViewRef = Null
    /\ touch = "released"
    /\ presses = 1
    /\ scrollCalls = << >>
    /\ errors = 0

\* C3: whenever the screen is mounted it shows exactly 3 project cards, with
\* keys 1, 2, 3 and the three titles of the hardcoded list, in that order.
C3_ThreeCardsInOrder ==
    mounted =>
        /\ Len(Cards) = 3
        /\ [i \in 1..3 |-> Cards[i].key] = <<1, 2, 3>>
        /\ [i \in 1..3 |-> CardText(Cards[i], "projectTitle")] =
               << {"Sales Performance Analysis"},
                  {"Customer Segmentation Study"},
                  {"Inventory Data Cleanup Project"} >>

C3_Witness ==
    /\ mounted
    /\ presses >= 1
    /\ renders >= 2
    /\ Len(Cards) = 3

\* C4: card i of a rendered ProjectsSection shows the title, the description
\* and the tech of element i of the list it was given, each in the Text of
\* that field and as supplied.
C4_CardShowsItsRecord ==
    tree # << >> =>
        \A i \in 1..Len(projects) :
            /\ i \in DOMAIN tree[1].cards
            /\ CardText(tree[1].cards[i], "projectTitle") = {projects[i].title}
            /\ CardText(tree[1].cards[i], "projectDescription") = {projects[i].description}
            /\ CardText(tree[1].cards[i], "projectTech") = {projects[i].tech}

C4_Witness ==
    /\ tree # << >>
    /\ Len(projects) = 2
    /\ projects[1].title # projects[2].title
    /\ projects[1].description # projects[2].description
    /\ projects[1].tech # projects[2].tech
    /\ Len(tree[1].cards) = 2

\* C5: whenever the screen is mounted, the ScrollView holds exactly four
\* sections, in the order Hero, About, Projects, Contact.
C5_FourSectionsInOrder ==
    mounted =>
        /\ tree[1].type = "ScrollView"
        /\ [i \in 1..Len(Sections) |-> Sections[i].component] =
               << "HeroSection", "AboutSection", "ProjectsSection", "ContactSection" >>

C5_Witness ==
    /\ mounted
    /\ renders >= 2
    /\ presses >= 1
    /\ Len(Sections) = 4

C7_ProjectsImmutable ==
    /\ [](mounted => Len(projects) = 3)
    /\ [][ (mounted /\ mounted') => projects' = projects ]_vars

C7_Witness ==
    /\ mounted
    /\ presses >= 2
    /\ renders >= 2
    /\ Len(projects) = 3

\* C8: no two records of the project list have the same id, and no two
\* rendered cards have the same key.
C8_IdsUnique ==
    mounted =>
        /\ \A i, j \in 1..Len(projects) : i # j => projects[i].id # projects[j].id
        /\ \A i, j \in 1..Len(Cards) : i # j => Cards[i].key # Cards[j].key

C8_Witness ==
    /\ mounted
    /\ Len(projects) = 3
    /\ Len(Cards) = 3

\* C9 as stated: the rendered output is the same in every state of the
\* mounted screen, whether or not the button is pressed.
C9_Original ==
    [][ (mounted /\ mounted') => tree' = tree ]_vars

\* C9 as amended: between the states of the mounted screen only the
\* background colour of the call-to-action button differs: it is #C7D2FE
\* while the button is pressed and #E0E7FF while it is not.
C9_OnlyCtaColourVaries ==
    /\ [](mounted =>
            tree[1].children[1].cta.style.backgroundColor =
                IF pressed THEN "#C7D2FE" ELSE "#E0E7FF")
    /\ [][ (mounted /\ mounted') =>
              [tree'[1] EXCEPT !.children[1].cta.style.backgroundColor = "-"] =
              [tree[1] EXCEPT !.children[1].cta.style.backgroundColor = "-"] ]_vars

C9_Witness ==
    /\ mounted
    /\ pressed
    /\ tree[1].children[1].cta.style.backgroundColor = "#C7D2FE"
    /\ renders >= 2

\* C10: a press delivered by the hero's button invokes the callback the hero
\* was given exactly once and changes nothing else of the screen; no other
\* step invokes the callback, and a render invokes no callback and makes no
\* scrollTo invocation.
C10_PressForwardsOnce ==
    [][ /\ (presses' = presses + 1) =>
              /\ callbackCalls' = callbackCalls + 1
              /\ UNCHANGED <<mounted, tree, projects, pressed, renders, errors, scrollViewRef>>
        /\ (presses' = presses) => callbackCalls' = callbackCalls
        /\ (renders' # renders) => (callbackCalls' = callbackCalls /\ scrollCalls' = scrollCalls) ]_vars

C10_Witness ==
    /\ mounted
    /\ presses = 2
    /\ callbackCalls = 2
    /\ renders >= 2

\* C11: for any list given to ProjectsSection, the empty list and lists with
\* repeated or unsorted records included, the rendered cards are as many as
\* the list's elements and follow the list's order: the sequence of the
\* cards' keys and titles is the sequence of the records' ids and titles.
C11_CardsFollowList ==
    tree # << >> =>
        /\ DOMAIN tree[1].cards = 1..Len(projects)
        /\ [i \in DOMAIN tree[1].cards |->
               << tree[1].cards[i].key, CardText(tree[1].cards[i], "projectTitle") >>]
           = [i \in 1..Len(projects) |-> << projects[i].id, {projects[i].title} >>]

\* A rendered list that is not sorted by id and repeats a title.
C11_Witness ==
    /\ tree # << >>
    /\ Len(projects) = 2
    /\ projects[1].id > projects[2].id
    /\ projects[1].title = projects[2].title
    /\ Len(tree[1].cards) = 2

\* The empty list is rendered too, with no card.
C11_EmptyListRendered ==
    /\ tree # << >>
    /\ projects = << >>
    /\ tree[1].cards = << >>

====
